---- MODULE Spec2Model ----
(***************************************************************************)
(* z-mail-agent: the per-batch email triage workflow.                      *)
(*                                                                         *)
(* The nodes (ingest, classify, handle_classification), their routers and  *)
(* the mail provider, each as the function the source defines, applied to  *)
(* an AgentState and a Zoho mailbox that keeps read flags, labels and sent *)
(* replies; and main.py, which is to wire them into one graph.             *)
(*                                                                         *)
(* Conventions.  Python None, "" and a missing dict key are all falsy in   *)
(* the conditions of the code, and all are written "" here.  An Optional   *)
(* object (classification_result, current_email) is <<>> when it is None   *)
(* or {} and <<x>> otherwise.  A confidence is a percentage (1.0 is 100).  *)
(* An exception text is a sequence of one-character strings, so that the   *)
(* substring tests of the code can be computed.                            *)
(***************************************************************************)
EXTENDS Integers, Sequences, FiniteSets, TLC

VARIABLES
    cfg,        \* RUN_CONFIG, PROCESSED_LABEL_ID, READ_EMAIL_LIMIT of the process
    rules,      \* classifications.yaml, in declaration order
    srv,        \* the mailbox at the mail server
    st,         \* the AgentState
    pc,         \* the node to call; after a node step, what its router returned
    run,        \* times the program was started (provider calls made, in SpecProvider)
    nodes,      \* the node invocations, in order
    log,        \* the latest node invocation and its provider calls, in order
    llm_calls,  \* classification-service calls of the latest classify step
    last,       \* the latest node, the state it was given and the update it returned
    marked,     \* messages whose apply_label request the server carried out
    install_dir \* the directory main.py is in (Path(__file__).parent.parent)

vars ==
    <<cfg, rules, srv, st, pc, run, nodes, log, llm_calls, last, marked, install_dir>>

----------------------------------------------------------------------------
(* Bounds of the model. *)

MaxMail == 2        \* messages in the mailbox and in a batch
MaxRuns == 2        \* times the program is started
MaxLimit == 2       \* largest READ_EMAIL_LIMIT tried
MaxFetchMail == 3   \* mailbox length for the fetch specification

\* Provider calls made in a row in SpecProvider.
MaxCalls == 2

----------------------------------------------------------------------------
(* Values. *)

Truthy(x) == x # ""

ProcessedLabel == "label_processed"
OtherLabel == "label_other"

MessageIds == <<"101", "102", "103", "104", "105", "106", "107", "108", "109", "110">>
Senders ==
    <<"a@x.org", "b@x.org", "c@x.org", "d@x.org", "e@x.org",
      "f@x.org", "g@x.org", "h@x.org", "i@x.org", "j@x.org">>

\* The keys of an email dictionary the workflow reads.
EmailDict(m) ==
    [messageId |-> m.messageId, folderId |-> m.folderId,
     fromAddress |-> m.fromAddress, subject |-> m.subject, labelId |-> m.labelId]

ServerMessage(i, folder, labels, unread) ==
    [messageId |-> MessageIds[i], folderId |-> folder, fromAddress |-> Senders[i],
     subject |-> "subject", labelId |-> labels, unread |-> unread, replies |-> 0]

RECURSIVE SelectSeq2(_, _)
\* [x for x in s if Keep(x)], written without a higher-order argument.
SelectSeq2(s, keep) ==
    IF s = <<>> THEN <<>>
    ELSE IF Head(s) \in keep THEN <<Head(s)>> \o SelectSeq2(Tail(s), keep)
    ELSE SelectSeq2(Tail(s), keep)

\* Python s[:n] for n >= 0.
Take(s, n) == IF n >= Len(s) THEN s ELSE SubSeq(s, 1, n)

Range(s) == {s[i] : i \in 1..Len(s)}

----------------------------------------------------------------------------
(* The mail server behind _make_request. *)

\* ZohoMail_listEmails with status=unread and a limit: the first `n` unread
\* messages of the mailbox, in mailbox order.
ListEmails(mailbox, n) ==
    LET unread == SelectSeq2(mailbox, {m \in Range(mailbox) : m.unread})
    IN  [i \in 1..Len(Take(unread, n)) |-> EmailDict(unread[i])]

\* What the server can answer to a request: HTTP 200 with a result, HTTP 200
\* with result.isError set (the tool refused, nothing was done), or no usable
\* answer at all (HTTP error status, time-out: requests.post or
\* raise_for_status raises).  NoRequest stands for a call that sent nothing.
AnswerOk == "ok"
AnswerIsError == "isError"
AnswerRaise == "raise"
NoRequest == "none"
Answers == {AnswerOk, AnswerIsError, AnswerRaise}

\* The mailbox after the requests of `calls` that the server carried out.
RECURSIVE ApplyCalls(_, _)
ApplyCalls(mailbox, calls) ==
    IF calls = <<>> THEN mailbox
    ELSE LET c == Head(calls)
             hit(m) == c.answer = AnswerOk /\ m.messageId = c.mid
             upd(m) ==
                 IF ~hit(m) THEN m
                 ELSE IF c.op = "send_reply" THEN [m EXCEPT !.replies = @ + 1]
                 ELSE IF c.op = "mark_as_read" THEN [m EXCEPT !.unread = FALSE]
                 ELSE IF c.op = "apply_label" THEN [m EXCEPT !.labelId = @ \cup {c.label}]
                 ELSE m
         IN  ApplyCalls([i \in 1..Len(mailbox) |-> upd(mailbox[i])], Tail(calls))

----------------------------------------------------------------------------
(* ZohoEmailProvider.  `answer` is what the server answers if a request is  *)
(* issued.  A call record says what was called, for which message, whether  *)
(* a request went to the server (req), what the server answered, and what   *)
(* the call returned (ok).                                                  *)

Call(op, mid, label, answer, ok) ==
    [op |-> op, mid |-> mid, label |-> label, req |-> answer # NoRequest,
     answer |-> answer, ok |-> ok, idx |-> -1]

\* A node invocation: the node, the current_index it was given, and whether it
\* returned a classification_result other than None.
NodeEntry(node, idx, classified) ==
    [op |-> node, mid |-> "", label |-> "", req |-> FALSE, answer |-> NoRequest,
     ok |-> classified, idx |-> idx]

\* The answer to a request whose result the caller parses: an answer without
\* the expected JSON text ends in the same except branch as a failed request.
Parsed(ok) == IF ok THEN AnswerOk ELSE AnswerRaise

fetch_unread_emails_no_filter(mailbox, limit, exclude_label_id, ok) ==
    IF ~ok THEN <<>>
    ELSE ListEmails(mailbox, IF Truthy(exclude_label_id) THEN limit * 3 ELSE limit)

fetch_unread_emails_no_overfetch(mailbox, limit, exclude_label_id, ok) ==
    IF ~ok THEN <<>>
    ELSE LET all_emails == ListEmails(mailbox, limit)
         IN  IF Truthy(exclude_label_id)
             THEN Take(SelectSeq2(all_emails,
                                  {e \in Range(all_emails) : exclude_label_id \notin e.labelId}),
                       limit)
             ELSE all_emails

fetch_unread_emails_always_overfetch(mailbox, limit, exclude_label_id, ok) ==
    IF ~ok THEN <<>>
    ELSE LET all_emails == ListEmails(mailbox, limit * 3)
         IN  IF Truthy(exclude_label_id)
             THEN Take(SelectSeq2(all_emails,
                                  {e \in Range(all_emails) : exclude_label_id \notin e.labelId}),
                       limit)
             ELSE all_emails

fetch_unread_emails(mailbox, limit, exclude_label_id, ok) ==
    IF ~ok THEN <<>>
    ELSE LET fetch_limit == IF Truthy(exclude_label_id) THEN limit * 3 ELSE limit
             all_emails == ListEmails(mailbox, fetch_limit)
         IN  IF Truthy(exclude_label_id)
             THEN Take(SelectSeq2(all_emails,
                                  {e \in Range(all_emails) : exclude_label_id \notin e.labelId}),
                       limit)
             ELSE all_emails

get_email_content_unguarded(message_id, folder_id, ok) ==
    [call |-> Call("get_email_content", message_id, "", Parsed(ok), ok),
     content |-> IF ok THEN "body" ELSE ""]

get_email_content(message_id, folder_id, ok) ==
    IF ~Truthy(message_id) \/ ~Truthy(folder_id)
    THEN [call |-> Call("get_email_content", message_id, "", NoRequest, FALSE), content |-> ""]
    ELSE [call |-> Call("get_email_content", message_id, "", Parsed(ok), ok),
          content |-> IF ok THEN "body" ELSE ""]

\* send_reply returns True unless _make_request raises: the answer is not read.
send_reply(c, message_id, to_address, answer) ==
    IF ~Truthy(message_id) \/ ~Truthy(to_address)
    THEN Call("send_reply", message_id, "", NoRequest, FALSE)
    ELSE IF c.dry_run \/ ~c.send_reply
    THEN Call("send_reply", message_id, "", NoRequest, TRUE)
    ELSE Call("send_reply", message_id, "", answer, answer # AnswerRaise)

\* mark_as_read returns True unless _make_request raises, like send_reply.
mark_as_read_unguarded(c, message_id, answer) ==
    IF c.dry_run THEN Call("mark_as_read", message_id, "", NoRequest, TRUE)
    ELSE Call("mark_as_read", message_id, "", answer, answer # AnswerRaise)

mark_as_read(c, message_id, answer) ==
    IF ~Truthy(message_id) THEN Call("mark_as_read", message_id, "", NoRequest, FALSE)
    ELSE IF c.dry_run THEN Call("mark_as_read", message_id, "", NoRequest, TRUE)
    ELSE Call("mark_as_read", message_id, "", answer, answer # AnswerRaise)

\* apply_label alone reads result.isError and returns False on it.
apply_label_dry_run_requests(c, message_id, folder_id, label_id, answer) ==
    IF ~Truthy(message_id) \/ ~Truthy(folder_id) \/ ~Truthy(label_id)
    THEN Call("apply_label", message_id, label_id, NoRequest, FALSE)
    ELSE IF ~c.add_label
    THEN Call("apply_label", message_id, label_id, NoRequest, TRUE)
    ELSE Call("apply_label", message_id, label_id, answer, answer = AnswerOk)

apply_label(c, message_id, folder_id, label_id, answer) ==
    IF ~Truthy(message_id) \/ ~Truthy(folder_id) \/ ~Truthy(label_id)
    THEN Call("apply_label", message_id, label_id, NoRequest, FALSE)
    ELSE IF c.dry_run \/ ~c.add_label
    THEN Call("apply_label", message_id, label_id, NoRequest, TRUE)
    ELSE Call("apply_label", message_id, label_id, answer, answer = AnswerOk)

----------------------------------------------------------------------------
(* Exception texts, and the substring tests made on them. *)

Chars429 == <<"4", "2", "9">>
CharsRateLimit == <<"r", "a", "t", "e", "_", "l", "i", "m", "i", "t">>

ErrHttp429 == <<"H", "T", "T", "P", " ", "4", "2", "9">>
ErrRateLimitUpper == <<"R", "A", "T", "E", "_", "L", "I", "M", "I", "T">>
ErrTimeout == <<"t", "i", "m", "e", "d", " ", "o", "u", "t">>

LLMErrors == {ErrHttp429, ErrRateLimitUpper, ErrTimeout}

\* str.lower(), on the letters the texts of the model use.
LowerChar(ch) ==
    CASE ch = "R" -> "r" [] ch = "A" -> "a" [] ch = "T" -> "t" [] ch = "E" -> "e"
      [] ch = "L" -> "l" [] ch = "I" -> "i" [] ch = "M" -> "m" [] ch = "H" -> "h"
      [] ch = "P" -> "p" [] ch = "N" -> "n" [] OTHER -> ch

Lower(s) == [i \in 1..Len(s) |-> LowerChar(s[i])]

\* pat in s
Contains(s, pat) ==
    \E i \in 1..(Len(s) - Len(pat) + 1) : SubSeq(s, i, i + Len(pat) - 1) = pat

is_rate_limit_429_only(error_msg) == Contains(error_msg, Chars429)

is_rate_limit(error_msg) ==
    Contains(Lower(error_msg), CharsRateLimit) \/ Contains(error_msg, Chars429)

----------------------------------------------------------------------------
(* Rules, prompts and templates. *)

Rule(name, priority, prompt, action, template) ==
    [name |-> name, priority |-> priority, classification_prompt |-> prompt,
     action |-> action, reply_template |-> template]

\* The prompt and template files that exist beside the program.
PromptFiles == {"prompts/a.txt", "prompts/b.txt", "prompts/c.txt"}
TemplateFiles == {"templates/reply.txt"}

\* Where the program is installed: a directory, and one whose name has the
\* digits 429 in it.
DirPlain ==
    <<"/", "s", "r", "v", "/", "z", "-", "m", "a", "i", "l", "-", "a", "g",
      "e", "n", "t">>
Dir429 ==
    <<"/", "s", "r", "v", "/", "w", "o", "r", "k", "4", "2", "9">>
InstallDirs == {DirPlain, Dir429}

\* The characters of a prompt or template path, as classifications.yaml
\* gives it.
PathChars(path) ==
    CASE path = "prompts/a.txt" ->
            <<"p", "r", "o", "m", "p", "t", "s", "/", "a", ".", "t", "x", "t">>
      [] path = "prompts/b.txt" ->
            <<"p", "r", "o", "m", "p", "t", "s", "/", "b", ".", "t", "x", "t">>
      [] path = "prompts/c.txt" ->
            <<"p", "r", "o", "m", "p", "t", "s", "/", "c", ".", "t", "x", "t">>
      [] path = "prompts/missing.txt" ->
            <<"p", "r", "o", "m", "p", "t", "s", "/", "m", "i", "s", "s", "i", "n", "g", ".", "t", "x", "t">>
      [] path = "prompts/Rate_Limit.txt" ->
            <<"p", "r", "o", "m", "p", "t", "s", "/", "R", "a", "t", "e", "_", "L", "i", "m", "i", "t", ".", "t", "x", "t">>
      [] path = "prompts/429.txt" ->
            <<"p", "r", "o", "m", "p", "t", "s", "/", "4", "2", "9", ".", "t", "x", "t">>
      [] path = "templates/reply.txt" ->
            <<"t", "e", "m", "p", "l", "a", "t", "e", "s", "/", "r", "e", "p", "l", "y", ".", "t", "x", "t">>
      [] path = "templates/missing.txt" ->
            <<"t", "e", "m", "p", "l", "a", "t", "e", "s", "/", "m", "i", "s", "s", "i", "n", "g", ".", "t", "x", "t">>
      [] OTHER -> <<>>

ErrnoPrefix ==
    <<"[", "E", "r", "r", "n", "o", " ", "2", "]", " ", "N", "o", " ", "s",
      "u", "c", "h", " ", "f", "i", "l", "e", " ", "o", "r", " ", "d", "i",
      "r", "e", "c", "t", "o", "r", "y", ":", " ", "'">>

\* str(e) of the FileNotFoundError that open() raises in load_prompt and in
\* load_template: the text carries the full path, root / path.
NoSuchFile(root, path) == ErrnoPrefix \o root \o <<"/">> \o PathChars(path) \o <<"'">>

RECURSIVE InsertSorted(_, _)
\* Python's sorted(key=priority) is stable: x goes after every element whose
\* priority is not larger than its own.
InsertSorted(sorted, x) ==
    IF sorted = <<>> THEN <<x>>
    ELSE IF Head(sorted).priority <= x.priority
    THEN <<Head(sorted)>> \o InsertSorted(Tail(sorted), x)
    ELSE <<x>> \o sorted

RECURSIVE SortByPriority(_)
SortByPriority(s) ==
    IF s = <<>> THEN <<>>
    ELSE InsertSorted(SortByPriority(SubSeq(s, 1, Len(s) - 1)), s[Len(s)])

load_classifications_ties_reversed(declared) ==
    SortByPriority([i \in 1..Len(declared) |-> declared[Len(declared) + 1 - i]])

load_classifications_unsorted(declared) == declared

load_classifications(declared) == SortByPriority(declared)

----------------------------------------------------------------------------
(* The classification service. *)

Judgment(match, confidence, reasoning) ==
    [kind |-> "judgment", match |-> match, confidence |-> confidence,
     reasoning |-> reasoning, error |-> <<>>]

Raise(error_msg) ==
    [kind |-> "raise", match |-> FALSE, confidence |-> 0, reasoning |-> "",
     error |-> error_msg]

Judgments ==
    {Judgment(TRUE, 90, "clear match"), Judgment(TRUE, 60, "weak match"),
     Judgment(FALSE, 80, "no match")}

Responses == Judgments \cup {Raise(e) : e \in LLMErrors}

----------------------------------------------------------------------------
(* AgentState and the classify node. *)

NoneValue == <<>>
Some(x) == <<x>>

InitialState ==
    [emails |-> <<>>, processed_count |-> 0, replied_count |-> 0, current_index |-> 0,
     errors |-> <<>>, current_email |-> NoneValue, classification_result |-> NoneValue]

EmailClassification(name, confidence, reasoning, action, template) ==
    [classification_name |-> name, confidence |-> confidence, reasoning |-> reasoning,
     action |-> action, reply_template |-> template]

ErrorEntry(fmt, idx, msg, text) == [fmt |-> fmt, idx |-> idx, msg |-> msg, text |-> text]

ClassifyError(idx, error_msg) ==
    ErrorEntry("Error classifying email {idx}: {error_msg}", idx, error_msg, "")

\* The loop over the rules: where it stops, and how.  "raise" is an exception
\* from load_prompt or from the service, "match" a judgment with match true,
\* "none" the end of the list.
RECURSIVE WaterfallNoShortCircuit(_, _, _, _)
WaterfallNoShortCircuit(cs, responses, i, found) ==
    IF i > Len(cs)
    THEN IF found = 0 THEN [how |-> "none", at |-> Len(cs), invoked |-> Len(cs)]
         ELSE [how |-> "match", at |-> found, invoked |-> Len(cs)]
    ELSE IF cs[i].classification_prompt \notin PromptFiles
    THEN [how |-> "noprompt", at |-> i, invoked |-> i - 1]
    ELSE IF responses[i].kind = "raise" THEN [how |-> "raise", at |-> i, invoked |-> i]
    ELSE WaterfallNoShortCircuit(cs, responses, i + 1,
                                 IF responses[i].match THEN i ELSE found)

RECURSIVE WaterfallFrom(_, _, _)
WaterfallFrom(cs, responses, i) ==
    IF i > Len(cs) THEN [how |-> "none", at |-> Len(cs), invoked |-> Len(cs)]
    ELSE IF cs[i].classification_prompt \notin PromptFiles
    THEN [how |-> "noprompt", at |-> i, invoked |-> i - 1]
    ELSE IF responses[i].kind = "raise" THEN [how |-> "raise", at |-> i, invoked |-> i]
    ELSE IF responses[i].match THEN [how |-> "match", at |-> i, invoked |-> i]
    ELSE WaterfallFrom(cs, responses, i + 1)

WaterfallLastMatch(cs, responses) == WaterfallNoShortCircuit(cs, responses, 1, 0)

Waterfall(cs, responses) == WaterfallFrom(cs, responses, 1)

UnclassifiedWrong ==
    EmailClassification("unclassified", 100, "No classification matched", "reply", "")

Unclassified ==
    EmailClassification("unclassified", 100, "No classification matched", "skip", "")

\* classify_email_node without the assignment of current_email, for comparison.
classify_email_node_keeps_current_email(root, state, declared, content_ok, responses) ==
    LET idx == state.current_index IN
    IF idx >= Len(state.emails)
    THEN [update |-> state, errors_in_place |-> state.errors, calls |-> <<>>, llm |-> <<>>]
    ELSE
    LET email == state.emails[idx + 1]
        fetched == get_email_content(email.messageId, email.folderId, content_ok)
        email_prompt == [subject |-> email.subject, content |-> fetched.content]
        cs == load_classifications(declared)
        w == Waterfall(cs, responses)
        llm == [i \in 1..w.invoked |->
                   [rule |-> cs[i].name, prompt |-> email_prompt, response |-> responses[i]]]
        error_msg == IF w.how = "noprompt"
                     THEN NoSuchFile(root, cs[w.at].classification_prompt)
                     ELSE responses[w.at].error
        failed == w.how \in {"raise", "noprompt"}
        new_errors ==
            IF failed /\ ~is_rate_limit(error_msg)
            THEN Append(state.errors, ClassifyError(idx, error_msg))
            ELSE state.errors
        result ==
            IF failed THEN NoneValue
            ELSE IF w.how = "match"
            THEN Some(EmailClassification(cs[w.at].name, responses[w.at].confidence,
                                          responses[w.at].reasoning, cs[w.at].action,
                                          cs[w.at].reply_template))
            ELSE Some(Unclassified)
    IN  [update |-> [emails |-> state.emails,
                     processed_count |-> state.processed_count,
                     replied_count |-> state.replied_count,
                     current_index |-> idx,
                     errors |-> new_errors,
                     current_email |-> state.current_email,
                     classification_result |-> result],
         errors_in_place |-> new_errors,
         calls |-> <<fetched.call>>,
         llm |-> llm]

\* classify_email_node.  `root` is the directory the program is installed in,
\* `content_ok` is whether the content request succeeds,
\* `responses[i]` what the service answers for the i-th rule in evaluation
\* order.  The result has the returned update, the state's errors list as the
\* node leaves it (the node appends to it in place), the provider calls made
\* and the service calls made.
classify_email_node(root, state, declared, content_ok, responses) ==
    LET idx == state.current_index IN
    IF idx >= Len(state.emails)
    THEN [update |-> state, errors_in_place |-> state.errors, calls |-> <<>>, llm |-> <<>>]
    ELSE
    LET email == state.emails[idx + 1]
        fetched == get_email_content(email.messageId, email.folderId, content_ok)
        email_prompt == [subject |-> email.subject, content |-> fetched.content]
        cs == load_classifications(declared)
        w == Waterfall(cs, responses)
        llm == [i \in 1..w.invoked |->
                   [rule |-> cs[i].name, prompt |-> email_prompt, response |-> responses[i]]]
        error_msg == IF w.how = "noprompt"
                     THEN NoSuchFile(root, cs[w.at].classification_prompt)
                     ELSE responses[w.at].error
        failed == w.how \in {"raise", "noprompt"}
        new_errors ==
            IF failed /\ ~is_rate_limit(error_msg)
            THEN Append(state.errors, ClassifyError(idx, error_msg))
            ELSE state.errors
        result ==
            IF failed THEN NoneValue
            ELSE IF w.how = "match"
            THEN Some(EmailClassification(cs[w.at].name, responses[w.at].confidence,
                                          responses[w.at].reasoning, cs[w.at].action,
                                          cs[w.at].reply_template))
            ELSE Some(Unclassified)
    IN  [update |-> [emails |-> state.emails,
                     processed_count |-> state.processed_count,
                     replied_count |-> state.replied_count,
                     current_index |-> idx,
                     errors |-> new_errors,
                     current_email |-> Some(email),
                     classification_result |-> result],
         errors_in_place |-> new_errors,
         calls |-> <<fetched.call>>,
         llm |-> llm]

classification_router_always_handler(state) == "handle_classification"

classification_router(state) ==
    IF state.current_index >= Len(state.emails) THEN "END"
    ELSE IF state.classification_result = NoneValue THEN "END"
    ELSE "handle_classification"

----------------------------------------------------------------------------
(* The handler node. *)

Field(email, key) == IF email = NoneValue THEN "" ELSE email[1][key]

NoTemplateError(name) ==
    ErrorEntry("No reply template for {classification_name}", -1, <<>>, name)

LoadTemplateError(template) ==
    ErrorEntry("Error loading template: {e}", -1, NoSuchFile(install_dir, template), "")

FailedReplyError(from_address) ==
    ErrorEntry("Failed to reply to {from_address}", -1, <<>>, from_address)

\* _skip_email.  `errors_now` is the state's errors list at the time of the
\* call: _handle_reply appends to it in place before it falls back to a skip.
skip_email(c, state, errors_now, email, should_label, o) ==
    LET message_id == Field(email, "messageId")
        folder_id == Field(email, "folderId")
        calls ==
            IF should_label /\ c.add_label /\ Truthy(message_id) /\ Truthy(folder_id)
                /\ Truthy(c.label_id)
            THEN <<apply_label(c, message_id, folder_id, c.label_id, o.label)>>
            ELSE <<>>
    IN  [update |-> [emails |-> state.emails,
                     processed_count |-> state.processed_count + 1,
                     replied_count |-> state.replied_count,
                     current_index |-> state.current_index + 1,
                     errors |-> errors_now,
                     current_email |-> NoneValue,
                     classification_result |-> NoneValue],
         errors_in_place |-> errors_now,
         calls |-> calls]

\* _handle_reply with one of its decisions changed, for comparison:
\*   "dry_run_sends"    the dry-run branch is not taken;
\*   "template_ignored" a reply goes out without a loadable template;
\*   "label_recorded"   an apply_label that returns False is recorded in errors;
\*   "no_mark"          a successful reply is not marked as read.
\*   "marker_unchecked" apply_label is called without a configured marker.
\*   "result_kept"      the classification_result is not reset after a reply.
\*   "label_retried"    an apply_label that returns False is called again.
\*   "emails_cut"       the emails after the current one are dropped.
\*   "mark_unconditional" mark_as_read follows send_reply whatever it returned.
\*   "gate_ignored"     send_reply is called with the send_reply flag off too.
\*   "counts_failed"    a send_reply that returned False is counted as a reply.
handle_reply_changed(change, c, state, email, classification, o) ==
    LET message_id == Field(email, "messageId")
        folder_id == Field(email, "folderId")
        from_address == Field(email, "fromAddress")
        can_label ==
            /\ Truthy(message_id) /\ Truthy(folder_id)
            /\ (Truthy(c.label_id) \/ change = "marker_unchecked")
        labelled == apply_label(c, message_id, folder_id, c.label_id, o.label)
        label_call ==
            IF change = "label_retried" /\ ~labelled.ok THEN <<labelled, labelled>>
            ELSE <<labelled>>
        sent == send_reply(c, message_id, from_address, o.send)
        gate == c.send_reply \/ change = "gate_ignored"
        success == gate /\ sent.ok
        send_calls == IF gate THEN <<sent>> ELSE <<>>
        mark_calls ==
            IF (success \/ (gate /\ change = "mark_unconditional"))
                /\ Truthy(message_id) /\ change # "no_mark"
            THEN <<mark_as_read(c, message_id, o.mark)>> ELSE <<>>
        live_errors ==
            IF gate /\ ~success
            THEN Append(state.errors, FailedReplyError(from_address))
            ELSE state.errors
        label_errors(errs, called) ==
            IF change = "label_recorded" /\ called /\ ~labelled.ok
            THEN Append(errs, FailedReplyError(from_address)) ELSE errs
        result(replied, errs, calls) ==
            [update |-> [emails |-> IF change = "emails_cut"
                                    THEN SubSeq(state.emails, 1, state.current_index + 1)
                                    ELSE state.emails,
                         processed_count |-> state.processed_count + 1,
                         replied_count |-> replied,
                         current_index |-> state.current_index + 1,
                         errors |-> errs,
                         current_email |-> NoneValue,
                         classification_result |->
                             IF change = "result_kept" THEN Some(classification)
                             ELSE NoneValue],
             errors_in_place |-> errs,
             calls |-> calls]
    IN  IF ~Truthy(classification.reply_template) /\ change # "template_ignored"
        THEN skip_email(c, state,
                       Append(state.errors, NoTemplateError(classification.classification_name)),
                       email, TRUE, o)
        ELSE IF classification.reply_template \notin TemplateFiles
                /\ change # "template_ignored"
        THEN skip_email(c, state, Append(state.errors, LoadTemplateError(classification.reply_template)),
                        email, TRUE, o)
        ELSE IF c.dry_run /\ change # "dry_run_sends"
        THEN result(state.replied_count + 1, state.errors,
                    IF can_label THEN label_call ELSE <<>>)
        ELSE result(IF success \/ (gate /\ change = "counts_failed")
                    THEN state.replied_count + 1 ELSE state.replied_count,
                    label_errors(live_errors, c.add_label /\ can_label),
                    send_calls \o mark_calls
                        \o (IF c.add_label /\ can_label THEN label_call ELSE <<>>))

handle_reply_dry_run_sends(c, state, email, classification, o) ==
    handle_reply_changed("dry_run_sends", c, state, email, classification, o)

handle_reply_template_ignored(c, state, email, classification, o) ==
    handle_reply_changed("template_ignored", c, state, email, classification, o)

handle_reply_label_recorded(c, state, email, classification, o) ==
    handle_reply_changed("label_recorded", c, state, email, classification, o)

handle_reply_marker_unchecked(c, state, email, classification, o) ==
    handle_reply_changed("marker_unchecked", c, state, email, classification, o)

handle_reply_result_kept(c, state, email, classification, o) ==
    handle_reply_changed("result_kept", c, state, email, classification, o)

handle_reply_label_retried(c, state, email, classification, o) ==
    handle_reply_changed("label_retried", c, state, email, classification, o)

handle_reply_emails_cut(c, state, email, classification, o) ==
    handle_reply_changed("emails_cut", c, state, email, classification, o)

handle_reply_mark_unconditional(c, state, email, classification, o) ==
    handle_reply_changed("mark_unconditional", c, state, email, classification, o)

handle_reply_gate_ignored(c, state, email, classification, o) ==
    handle_reply_changed("gate_ignored", c, state, email, classification, o)

handle_reply_counts_failed(c, state, email, classification, o) ==
    handle_reply_changed("counts_failed", c, state, email, classification, o)

handle_reply_no_mark(c, state, email, classification, o) ==
    handle_reply_changed("no_mark", c, state, email, classification, o)

\* _handle_reply
handle_reply(c, state, email, classification, o) ==
    LET message_id == Field(email, "messageId")
        folder_id == Field(email, "folderId")
        from_address == Field(email, "fromAddress")
        can_label == Truthy(message_id) /\ Truthy(folder_id) /\ Truthy(c.label_id)
        label_call == <<apply_label(c, message_id, folder_id, c.label_id, o.label)>>
        sent == send_reply(c, message_id, from_address, o.send)
        success == c.send_reply /\ sent.ok
        send_calls == IF c.send_reply THEN <<sent>> ELSE <<>>
        mark_calls ==
            IF success /\ Truthy(message_id)
            THEN <<mark_as_read(c, message_id, o.mark)>> ELSE <<>>
        live_errors ==
            IF c.send_reply /\ ~success
            THEN Append(state.errors, FailedReplyError(from_address))
            ELSE state.errors
        result(replied, errs, calls) ==
            [update |-> [emails |-> state.emails,
                         processed_count |-> state.processed_count + 1,
                         replied_count |-> replied,
                         current_index |-> state.current_index + 1,
                         errors |-> errs,
                         current_email |-> NoneValue,
                         classification_result |-> NoneValue],
             errors_in_place |-> errs,
             calls |-> calls]
    IN  IF ~Truthy(classification.reply_template)
        THEN skip_email(c, state,
                       Append(state.errors, NoTemplateError(classification.classification_name)),
                       email, TRUE, o)
        ELSE IF classification.reply_template \notin TemplateFiles
        THEN skip_email(c, state, Append(state.errors, LoadTemplateError(classification.reply_template)),
                        email, TRUE, o)
        ELSE IF c.dry_run
        THEN result(state.replied_count + 1, state.errors,
                    IF can_label THEN label_call ELSE <<>>)
        ELSE result(IF success THEN state.replied_count + 1 ELSE state.replied_count,
                    live_errors,
                    send_calls \o mark_calls
                        \o (IF c.add_label /\ can_label THEN label_call ELSE <<>>))

\* handle_classification_node taking the no-label branch for every skip
\* classification, for comparison.
handle_classification_node_skips_unlabelled(c, state, o) ==
    LET email == state.current_email
        classification == state.classification_result
    IN  IF classification = NoneValue
        THEN skip_email(c, state, state.errors, email, TRUE, o)
        ELSE IF classification[1].action = "reply"
        THEN handle_reply(c, state, email, classification[1], o)
        ELSE IF classification[1].action = "skip"
        THEN skip_email(c, state, state.errors, email, FALSE, o)
        ELSE skip_email(c, state, state.errors, email, TRUE, o)

\* handle_classification_node.  `o` says, for each provider request the node
\* may issue, whether it succeeds.
handle_classification_node(c, state, o) ==
    LET email == state.current_email
        classification == state.classification_result
    IN  IF classification = NoneValue
        THEN skip_email(c, state, state.errors, email, TRUE, o)
        ELSE IF classification[1].action = "reply"
        THEN handle_reply(c, state, email, classification[1], o)
        ELSE IF classification[1].action = "skip"
        THEN skip_email(c, state, state.errors, email,
                       classification[1].classification_name # "error", o)
        ELSE skip_email(c, state, state.errors, email, TRUE, o)

route_after_action_stops_on_errors(state) ==
    IF state.current_index < Len(state.emails) /\ state.errors = <<>>
    THEN "classify" ELSE "END"

route_after_action(state) ==
    IF state.current_index < Len(state.emails) THEN "classify" ELSE "END"

ingest_emails_node_counts_batch(unread_emails) ==
    [emails |-> unread_emails, processed_count |-> Len(unread_emails), replied_count |-> 0,
     current_index |-> 0, errors |-> <<>>, current_email |-> NoneValue,
     classification_result |-> NoneValue]

\* ingest_emails_node
ingest_emails_node(unread_emails) ==
    [emails |-> unread_emails, processed_count |-> 0, replied_count |-> 0,
     current_index |-> 0, errors |-> <<>>, current_email |-> NoneValue,
     classification_result |-> NoneValue]

----------------------------------------------------------------------------
(* The nodes as steps.  A step calls the node function on the state and    *)
(* merges the update it returns the way StateGraph(AgentState) does; pc     *)
(* becomes what the node's router returns for the merged state (after       *)
(* ingest, the node the static edge names).                                 *)

\* The reducers of AgentState: every key takes the update's value, except
\* errors, whose reducer is operator.add (list concatenation).  `channels`
\* is the state as the node left it.
MergeState(channels, update) ==
    [update EXCEPT !.errors = channels.errors \o update.errors]

Outcomes == [send : Answers, mark : Answers, label : Answers]

Ingest ==
    /\ pc = "ingest"
    /\ \E ok \in BOOLEAN :
        LET unread_emails == fetch_unread_emails(srv, cfg.limit, cfg.label_id, ok)
            update == ingest_emails_node(unread_emails)
        IN  /\ st' = MergeState(st, update)
            /\ last' = [node |-> "ingest", input |-> st, update |-> update]
            /\ log' = <<NodeEntry("ingest", st.current_index, FALSE),
                        Call("fetch_unread_emails", "", cfg.label_id, Parsed(ok), ok)>>
    /\ nodes' = Append(nodes, [node |-> "ingest", idx |-> st.current_index])
    /\ pc' = "classify"
    /\ UNCHANGED <<cfg, rules, srv, run, llm_calls, marked, install_dir>>

\* A classify step, the content request ending as one of `contents` and the
\* service answering from `answers`.
ClassifyWith(contents, answers) ==
    /\ pc = "classify"
    /\ \E content_ok \in contents, responses \in [1..Len(rules) -> answers] :
        LET r == classify_email_node(install_dir, st, rules, content_ok, responses)
            merged == MergeState([st EXCEPT !.errors = r.errors_in_place], r.update)
        IN  /\ st' = merged
            /\ pc' = classification_router(merged)
            /\ last' = [node |-> "classify", input |-> st, update |-> r.update]
            /\ log' = <<NodeEntry("classify", st.current_index,
                                  r.update.classification_result # NoneValue)>> \o r.calls
            /\ llm_calls' = r.llm
    /\ nodes' = Append(nodes, [node |-> "classify", idx |-> st.current_index])
    /\ UNCHANGED <<cfg, rules, srv, run, marked, install_dir>>

ClassifyAny == ClassifyWith(BOOLEAN, Responses)

\* A handler step, the provider requests it issues ending as one of `outcomes`.
HandleWith(outcomes) ==
    /\ pc = "handle_classification"
    /\ \E o \in outcomes :
        LET r == handle_classification_node(cfg, st, o)
            merged == MergeState([st EXCEPT !.errors = r.errors_in_place], r.update)
        IN  /\ st' = merged
            /\ pc' = route_after_action(merged)
            /\ last' = [node |-> "handle_classification", input |-> st, update |-> r.update]
            /\ log' = <<NodeEntry("handle_classification", st.current_index, FALSE)>>
                           \o r.calls
            /\ srv' = ApplyCalls(srv, r.calls)
            /\ marked' = marked \cup
                   {r.calls[i].mid : i \in {j \in 1..Len(r.calls) :
                        r.calls[j].op = "apply_label" /\ r.calls[j].answer = AnswerOk}}
    /\ nodes' = Append(nodes, [node |-> "handle_classification", idx |-> st.current_index])
    /\ UNCHANGED <<cfg, rules, run, llm_calls, install_dir>>

Handle == HandleWith(Outcomes)

----------------------------------------------------------------------------
(* Specifications. *)

Config(dry, send, label, label_id, limit) ==
    [dry_run |-> dry, send_reply |-> send, add_label |-> label,
     label_id |-> label_id, limit |-> limit]

Configs ==
    {Config(d, s, a, l, n) : d \in BOOLEAN, s \in BOOLEAN, a \in BOOLEAN,
                             l \in {"", ProcessedLabel}, n \in 1..MaxLimit}

RulesArticle ==
    <<Rule("newsletter", 5, "prompts/b.txt", "skip", ""),
      Rule("article", 2, "prompts/a.txt", "reply", "templates/reply.txt")>>

RulesMixed ==
    <<Rule("promo", 1, "prompts/a.txt", "reply", ""),
      Rule("escalate", 1, "prompts/c.txt", "forward", "")>>

\* The single rule of the two-message scenario.
RulesSingle == <<Rule("article", 1, "prompts/a.txt", "reply", "templates/reply.txt")>>

RunRuleSets == {RulesArticle, RulesMixed, RulesSingle}

----------------------------------------------------------------------------
(* One ingest step over every small mailbox. *)

LabelSets == SUBSET {ProcessedLabel, OtherLabel}

InitFetch ==
    /\ cfg \in {Config(FALSE, TRUE, TRUE, l, n) :
                    l \in {"", ProcessedLabel, OtherLabel}, n \in 1..MaxLimit}
    /\ rules = RulesArticle
    /\ \E n \in 0..MaxFetchMail :
        \E labels \in [1..n -> LabelSets], unread \in [1..n -> BOOLEAN] :
            srv = [i \in 1..n |-> ServerMessage(i, "folder", labels[i], unread[i])]
    /\ st = InitialState
    /\ pc = "ingest"
    /\ run = 1
    /\ nodes = <<>>
    /\ log = <<>>
    /\ llm_calls = <<>>
    /\ last = [node |-> "START", input |-> InitialState, update |-> InitialState]
    /\ marked = {}
    /\ install_dir = DirPlain

SpecFetch == InitFetch /\ [][Ingest]_vars

----------------------------------------------------------------------------
(* One classify step, from the states a run can give the classify node. *)

RulesTies ==
    <<Rule("late", 5, "prompts/c.txt", "label", ""),
      Rule("first", 2, "prompts/a.txt", "reply", "templates/reply.txt"),
      Rule("second", 2, "prompts/b.txt", "skip", "")>>

RulesNoPrompt ==
    <<Rule("article", 2, "prompts/a.txt", "reply", "templates/reply.txt"),
      Rule("ghost", 1, "prompts/missing.txt", "skip", "")>>

\* The same with a prompt path that has "rate_limit" in it, in mixed case,
\* and one that has "429" in it.
RulesNoPromptRateLimit ==
    <<Rule("article", 2, "prompts/a.txt", "reply", "templates/reply.txt"),
      Rule("ghost", 1, "prompts/Rate_Limit.txt", "skip", "")>>

RulesNoPrompt429 ==
    <<Rule("ghost", 3, "prompts/429.txt", "skip", ""),
      Rule("article", 2, "prompts/a.txt", "reply", "templates/reply.txt")>>

ClassifyRuleSets ==
    {<<>>, RulesArticle, RulesMixed, RulesTies, RulesNoPrompt, RulesNoPromptRateLimit,
     RulesNoPrompt429}

\* The errors of the state after a handler step that recorded a failed reply,
\* and after the classify step that follows it.
ErrorsAfterHandle ==
    LET failed == <<FailedReplyError(Senders[1])>>
    IN  MergeState([errors |-> failed], [errors |-> failed]).errors

ErrorsAfterClassify ==
    MergeState([errors |-> ErrorsAfterHandle], [errors |-> ErrorsAfterHandle]).errors

ClassifyBatch ==
    [i \in 1..MaxMail |->
        EmailDict(ServerMessage(i, IF i = 2 THEN "" ELSE "folder", {}, TRUE))]

InitClassify ==
    /\ cfg \in {Config(d, TRUE, TRUE, ProcessedLabel, MaxLimit) : d \in BOOLEAN}
    /\ rules \in ClassifyRuleSets
    /\ srv = [i \in 1..MaxMail |->
                 ServerMessage(i, IF i = 2 THEN "" ELSE "folder", {}, TRUE)]
    /\ \E idx \in 0..MaxMail, replied \in 0..1,
          errs \in {<<>>, ErrorsAfterHandle}, batch \in {ClassifyBatch, <<>>} :
        /\ replied <= idx
        /\ (errs # <<>> => idx > 0)
        /\ (batch = <<>> => idx = 0)
        /\ st = [emails |-> batch, processed_count |-> idx,
                 replied_count |-> replied, current_index |-> idx, errors |-> errs,
                 current_email |-> NoneValue, classification_result |-> NoneValue]
    /\ pc = "classify"
    /\ run = 1
    /\ nodes = <<>>
    /\ log = <<>>
    /\ llm_calls = <<>>
    /\ last = [node |-> "START", input |-> InitialState, update |-> InitialState]
    /\ marked = {}
    /\ install_dir \in InstallDirs

SpecClassify == InitClassify /\ [][ClassifyAny]_vars

----------------------------------------------------------------------------
(* One ingest step over mailboxes longer than the over-fetch window: every  *)
(* message unread, with or without the processed marker, and the node given *)
(* the state main() passes or a state left over from a run.                 *)

PageMailboxLen == 3 * MaxLimit + 1

UsedState ==
    [emails |-> <<EmailDict(ServerMessage(1, "folder", {}, TRUE))>>,
     processed_count |-> 1, replied_count |-> 1, current_index |-> 1,
     errors |-> ErrorsAfterHandle,
     current_email |-> Some(EmailDict(ServerMessage(1, "folder", {}, TRUE))),
     classification_result |-> Some(Unclassified)]

InitPage ==
    /\ cfg \in {Config(d, TRUE, TRUE, l, n) :
                    d \in BOOLEAN, l \in {"", ProcessedLabel}, n \in 1..MaxLimit}
    /\ rules = RulesArticle
    /\ \E n \in 0..PageMailboxLen :
        \E labelled \in [1..n -> BOOLEAN] :
            srv = [i \in 1..n |->
                      ServerMessage(i, "folder",
                                    IF labelled[i] THEN {ProcessedLabel} ELSE {}, TRUE)]
    /\ st \in {InitialState, UsedState}
    /\ pc = "ingest"
    /\ run = 1
    /\ nodes = <<>>
    /\ log = <<>>
    /\ llm_calls = <<>>
    /\ last = [node |-> "START", input |-> InitialState, update |-> InitialState]
    /\ marked = {}
    /\ install_dir = DirPlain

SpecPage == InitPage /\ [][Ingest]_vars

----------------------------------------------------------------------------
(* One handler step, from the states the classify node can hand over: every *)
(* kind of rule matched, no rule matched, or no classification at all, for  *)
(* a message that may lack an id, a folder id or a sender, under every      *)
(* configuration.                                                           *)

HandleRules ==
    <<Rule("article", 1, "prompts/a.txt", "reply", "templates/reply.txt"),
      Rule("promo", 2, "prompts/a.txt", "reply", ""),
      Rule("broken", 3, "prompts/a.txt", "reply", "templates/missing.txt"),
      Rule("newsletter", 4, "prompts/b.txt", "skip", ""),
      Rule("error", 5, "prompts/b.txt", "skip", ""),
      Rule("escalate", 6, "prompts/c.txt", "forward", ""),
      Rule("tagged", 7, "prompts/c.txt", "label", ""),
      Rule("archived", 8, "prompts/c.txt", "archive", "")>>

HandleClassifications ==
    {Some(EmailClassification(r.name, 90, "clear match", r.action, r.reply_template)) :
        r \in Range(HandleRules)}
    \cup {Some(Unclassified), NoneValue}

\* The message at the cursor: whole, or without one of the keys the handler reads.
HandleEmails(i) ==
    LET m == EmailDict(ServerMessage(i, "folder", {}, TRUE))
    IN  {m, [m EXCEPT !.messageId = ""], [m EXCEPT !.folderId = ""],
         [m EXCEPT !.fromAddress = ""]}

InitHandle ==
    /\ cfg \in {c \in Configs : c.limit = MaxLimit}
    /\ rules = HandleRules
    /\ srv = [i \in 1..MaxMail |-> ServerMessage(i, "folder", {}, TRUE)]
    /\ \E idx \in 0..(MaxMail - 1), errs \in {<<>>, ErrorsAfterClassify} :
        \E email \in HandleEmails(idx + 1), classification \in HandleClassifications :
            /\ errs # <<>> => idx > 0
            /\ st = [emails |-> [i \in 1..MaxMail |->
                                    IF i = idx + 1 THEN email
                                    ELSE EmailDict(ServerMessage(i, "folder", {}, TRUE))],
                     processed_count |-> idx,
                     replied_count |-> IF errs # <<>> THEN 0 ELSE idx,
                     current_index |-> idx, errors |-> errs,
                     current_email |-> Some(email),
                     classification_result |-> classification]
    /\ pc = "handle_classification"
    /\ run = 1
    /\ nodes = <<>>
    /\ log = <<>>
    /\ llm_calls = <<>>
    /\ last = [node |-> "START", input |-> InitialState, update |-> InitialState]
    /\ marked = {}
    /\ install_dir = DirPlain

SpecHandle == InitHandle /\ [][Handle]_vars

----------------------------------------------------------------------------
(* One call of any node: the ingest, classify and handler steps above, each *)
(* from the states of its own specification, and nothing after it.          *)

InitNodes == InitPage \/ InitClassify \/ InitHandle

IngestOnce == last.node = "START" /\ Ingest

ClassifyOnce == last.node = "START" /\ ClassifyAny

HandleOnce == last.node = "START" /\ Handle

NextNodes == IngestOnce \/ ClassifyOnce \/ HandleOnce

SpecNodes == InitNodes /\ [][NextNodes]_vars

----------------------------------------------------------------------------
(* The program: python main.py.  The module's imports run first; main()     *)
(* would then call build_workflow and invoke the graph on the initial       *)
(* state.                                                                   *)

\* The names each module of the nodes package defines.
ModuleDefines ==
    [ingest |-> {"create_ingest_node"},
     classify |-> {"load_classifications", "load_prompt", "create_classify_node",
                   "classification_router"},
     handlers |-> {"load_template", "create_classification_handler",
                   "route_after_action"}]

\* The names nodes/__init__.py imports from each module.
PackageImports ==
    [ingest |-> {"create_ingest_node"},
     classify |-> {"create_classify_node", "classification_router"},
     handlers |-> {"create_article_submission_handler", "create_skip_handler",
                   "route_after_action"}]

\* `from nodes import ...`: nodes/__init__.py runs, and a name it imports
\* from a module that does not define it raises ImportError.
ImportNodes ==
    IF \A m \in DOMAIN PackageImports : PackageImports[m] \subseteq ModuleDefines[m]
    THEN "imported" ELSE "ImportError"

\* build_workflow: the destinations it registers for the classify node's
\* conditional edges, the factory it calls for each handler node it adds,
\* and the factories the nodes package defines.
ClassifyDestinations == {"handle_article_submission", "skip_email", "END"}

HandlerNodeFactory ==
    [handle_article_submission |-> "create_article_submission_handler",
     skip_email |-> "create_skip_handler"]

DefinedFactories ==
    {"create_ingest_node", "create_classify_node", "create_classification_handler"}

ArticleSubject == "article submission"

Subjects == {ArticleSubject, "subject"}

DefaultConfig == Config(FALSE, TRUE, TRUE, ProcessedLabel, MaxLimit)

\* One start of the program.  The import of the nodes package is at the top
\* of main.py, before main() is defined: when it raises, the process ends
\* with the traceback; no provider or graph is built, no AgentState exists,
\* no node is called and no request is sent.
main ==
    /\ pc \in {"START", "ImportError"}
    /\ run < MaxRuns
    /\ run' = run + 1
    /\ pc' = IF ImportNodes = "ImportError" THEN "ImportError" ELSE "ingest"
    /\ UNCHANGED <<cfg, rules, srv, st, nodes, log, llm_calls, last, marked, install_dir>>

\* Before the first start: any configuration, a rule file, and a mailbox of
\* unread messages without labels.
Init ==
    /\ cfg \in Configs
    /\ rules \in RunRuleSets
    /\ \E subject \in [1..MaxMail -> Subjects] :
        srv = [i \in 1..MaxMail |->
                  [ServerMessage(i, "folder", {}, TRUE) EXCEPT !.subject = subject[i]]]
    /\ st = InitialState
    /\ pc = "START"
    /\ run = 0
    /\ nodes = <<>>
    /\ log = <<>>
    /\ llm_calls = <<>>
    /\ last = [node |-> "START", input |-> InitialState, update |-> InitialState]
    /\ marked = {}
    /\ install_dir = DirPlain

Next == main

Spec == Init /\ [][Next]_vars

----------------------------------------------------------------------------
(* The provider operations called directly, with arguments present or       *)
(* missing, under every configuration.                                      *)

\* Arguments the provider operations can be given: present or missing.
ArgIds == {"", "101"}
ArgAddresses == {"", "a@x.org"}
ArgFolders == {"", "folder"}
ArgLabels == {"", ProcessedLabel}

\* What a direct call was given and what it returned.
ProviderArgs(op, message_id, to_address, folder_id, label_id) ==
    [op |-> op, message_id |-> message_id, to_address |-> to_address,
     folder_id |-> folder_id, label_id |-> label_id]

ProviderResult(call, content) ==
    [req |-> call.req, answer |-> call.answer, ok |-> call.ok, content |-> content]

ProviderStep(call, args, content) ==
    /\ pc = "provider"
    /\ run < MaxCalls
    /\ run' = run + 1
    /\ log' = <<call>>
    /\ srv' = ApplyCalls(srv, <<call>>)
    /\ marked' = IF call.op = "apply_label" /\ call.answer = AnswerOk
                 THEN marked \cup {call.mid} ELSE marked
    /\ last' = [node |-> "provider", input |-> args, update |-> ProviderResult(call, content)]
    /\ UNCHANGED <<cfg, rules, st, pc, nodes, llm_calls, install_dir>>

SendReply ==
    \E message_id \in ArgIds, to_address \in ArgAddresses, answer \in Answers :
        ProviderStep(send_reply(cfg, message_id, to_address, answer),
                     ProviderArgs("send_reply", message_id, to_address, "", ""), "")

MarkAsRead ==
    \E message_id \in ArgIds, answer \in Answers :
        ProviderStep(mark_as_read(cfg, message_id, answer),
                     ProviderArgs("mark_as_read", message_id, "", "", ""), "")

ApplyLabel ==
    \E message_id \in ArgIds, folder_id \in ArgFolders, label_id \in ArgLabels,
       answer \in Answers :
        ProviderStep(apply_label(cfg, message_id, folder_id, label_id, answer),
                     ProviderArgs("apply_label", message_id, "", folder_id, label_id), "")

GetEmailContent ==
    \E message_id \in ArgIds, folder_id \in ArgFolders, ok \in BOOLEAN :
        LET r == get_email_content(message_id, folder_id, ok)
        IN  ProviderStep(r.call,
                         ProviderArgs("get_email_content", message_id, "", folder_id, ""),
                         r.content)

InitProvider ==
    /\ cfg \in {c \in Configs : c.limit = MaxLimit}
    /\ rules = RulesArticle
    /\ srv = [i \in 1..MaxMail |-> ServerMessage(i, "folder", {}, TRUE)]
    /\ st = InitialState
    /\ pc = "provider"
    /\ run = 0
    /\ nodes = <<>>
    /\ log = <<>>
    /\ llm_calls = <<>>
    /\ last = [node |-> "START", input |-> InitialState, update |-> InitialState]
    /\ marked = {}
    /\ install_dir = DirPlain

NextProvider == SendReply \/ MarkAsRead \/ ApplyLabel \/ GetEmailContent

SpecProvider == InitProvider /\ [][NextProvider]_vars

----------------------------------------------------------------------------
(* What the properties below read from the log. *)

NodeNames == {"ingest", "classify", "handle_classification"}

LogIndexes(op) == {k \in 1..Len(log) : log[k].op = op}

\* The provider calls of the latest node invocation.
StepCalls ==
    LET starts == {k \in 1..Len(log) : log[k].op \in NodeNames}
        start == IF starts = {} THEN 0 ELSE CHOOSE k \in starts : \A j \in starts : j <= k
    IN  SubSeq(log, start + 1, Len(log))

StepCallsOf(op) == {k \in 1..Len(StepCalls) : StepCalls[k].op = op}

\* The message a classify or handler step of this run worked on.
InRange(state) == state.current_index < Len(state.emails)

ServerMessageOf(mid) == CHOOSE m \in Range(srv) : m.messageId = mid

LabelingOn == ~cfg.dry_run /\ cfg.add_label /\ Truthy(cfg.label_id)

----------------------------------------------------------------------------
(* Loop termination and error isolation. *)

\* C1: a router returns END only when the whole batch has been handled
\* (current_index = processed_count = N), and a handler step advances both
\* by exactly one, so a run ends after N handler invocations and not before.
C1_RunEndsAfterNHandlers ==
    /\ (last.node \in {"classify", "handle_classification"} /\ pc = "END") =>
            /\ st.current_index = Len(st.emails)
            /\ st.processed_count = Len(st.emails)
    /\ last.node = "handle_classification" =>
            /\ st.current_index = last.input.current_index + 1
            /\ st.processed_count = last.input.processed_count + 1

\* C2: a failure on a message that is not the last of the batch does not end
\* the run: after a classify step that returned no classification, and after
\* a handler step that recorded a failure, the router names a next node, so
\* the classify node is still called for the messages that follow.
C2_EveryMessageClassified ==
    /\ (/\ last.node = "classify"
        /\ last.input.current_index + 1 < Len(last.input.emails)
        /\ last.update.classification_result = NoneValue) => pc # "END"
    /\ (/\ last.node = "handle_classification"
        /\ last.input.current_index + 1 < Len(last.input.emails)) => pc = "classify"

C4_NullRoutedToHandler ==
    (last.node = "classify" /\ InRange(st) /\ st.classification_result = NoneValue)
        => pc = "handle_classification"

----------------------------------------------------------------------------
(* Reply failure. *)

\* C5: outside dry-run with reply sending on, a handler step whose send_reply
\* returned False calls neither apply_label nor mark_as_read, leaves
\* replied_count as it was, and returns the errors it was given plus exactly
\* one entry naming the sender.
C5_FailedReplyNotMarked ==
    (/\ last.node = "handle_classification"
     /\ ~cfg.dry_run /\ cfg.send_reply
     /\ \E k \in StepCallsOf("send_reply") : ~StepCalls[k].ok)
        => /\ StepCallsOf("apply_label") = {}
           /\ StepCallsOf("mark_as_read") = {}
           /\ last.update.replied_count = last.input.replied_count
           /\ last.update.errors =
                  Append(last.input.errors,
                         FailedReplyError(Field(last.input.current_email, "fromAddress")))

----------------------------------------------------------------------------
(* Across runs. *)

\* The messages an ingest step would put in its batch, with READ_EMAIL_LIMIT
\* `limit`, from the mailbox as it is now.
NextBatchIds(limit) ==
    LET batch == ingest_emails_node(
                     fetch_unread_emails(srv, limit, cfg.label_id, TRUE)).emails
    IN  {batch[i].messageId : i \in 1..Len(batch)}

\* C6: with labeling on and the marker configured, a message whose
\* apply_label request the server carried out is in the batch of no later
\* ingest, whatever the limit, so it is not classified or handled again.
C6_MarkedNeverReprocessed ==
    (last.node = "handle_classification" /\ LabelingOn) =>
        \A limit \in 1..MaxLimit : NextBatchIds(limit) \cap marked = {}

C6_Witness ==
    /\ last.node = "handle_classification"
    /\ LabelingOn
    /\ \E m \in Range(srv) : m.unread /\ m.messageId \in marked
    /\ NextBatchIds(MaxLimit) # {}

\* C7: a message that the server sent a reply for is in the batch of no later
\* ingest, so no later run sends it a second reply.
C7_AtMostOneReply ==
    last.node = "handle_classification" =>
        \A i \in 1..Len(srv) :
            srv[i].replies > 0 => srv[i].messageId \notin NextBatchIds(cfg.limit)

----------------------------------------------------------------------------
(* The waterfall. *)

\* Rule a comes before rule b in the evaluation order: lower priority number,
\* or the same priority and declared earlier.
Precedes(i, j) ==
    \/ rules[i].priority < rules[j].priority
    \/ rules[i].priority = rules[j].priority /\ i < j

\* C8: when the service answers match = true for a rule, that is the last
\* call of the step; the calls before it are the rules that precede it in
\* priority order, in that order, all without a match; and the classification
\* returned has that rule's name, action and reply_template and that
\* judgment's confidence and reasoning.
C8_WaterfallPrecedence ==
    (last.node = "classify" /\ InRange(last.input)) =>
        \A k \in 1..Len(llm_calls) :
            llm_calls[k].response.match =>
                \E i \in 1..Len(rules) :
                    /\ k = Len(llm_calls)
                    /\ rules[i].name = llm_calls[k].rule
                    /\ Cardinality({j \in 1..Len(rules) : Precedes(j, i)}) = k - 1
                    /\ \A n \in 1..(k - 1) :
                        \E j \in 1..Len(rules) :
                            /\ rules[j].name = llm_calls[n].rule
                            /\ Precedes(j, i)
                            /\ Cardinality({h \in 1..Len(rules) : Precedes(h, j)}) = n - 1
                            /\ ~llm_calls[n].response.match
                    /\ last.update.classification_result =
                           <<[classification_name |-> rules[i].name,
                              confidence |-> llm_calls[k].response.confidence,
                              reasoning |-> llm_calls[k].response.reasoning,
                              action |-> rules[i].action,
                              reply_template |-> rules[i].reply_template]>>

C8_Witness ==
    /\ last.node = "classify"
    /\ rules = RulesTies
    /\ Len(llm_calls) = 2
    /\ llm_calls[2].response.match
    /\ llm_calls[2].rule = "second"

\* C9: when every rule was evaluated and none matched (also for no rules at
\* all), the classification returned is exactly the "unclassified" skip and
\* the errors returned are the errors given.
C9_NoMatchFallback ==
    (/\ last.node = "classify" /\ InRange(last.input)
     /\ Len(llm_calls) = Len(rules)
     /\ \A k \in 1..Len(llm_calls) :
            llm_calls[k].response.kind = "judgment" /\ ~llm_calls[k].response.match)
        => /\ last.update.classification_result =
                  <<[classification_name |-> "unclassified", confidence |-> 100,
                     reasoning |-> "No classification matched", action |-> "skip",
                     reply_template |-> ""]>>
           /\ last.update.errors = last.input.errors

C9_Witness ==
    /\ last.node = "classify" /\ InRange(last.input)
    /\ Len(rules) = 3
    /\ Len(llm_calls) = 3
    /\ \A k \in 1..3 : llm_calls[k].response.kind = "judgment" /\ ~llm_calls[k].response.match
    /\ last.input.errors # <<>>

----------------------------------------------------------------------------
(* The re-run filter. *)

\* C10: with the marker configured, no message of an ingested batch carries it.
C10_FetchExcludesLabel ==
    (last.node = "ingest" /\ Truthy(cfg.label_id)) =>
        \A i \in 1..Len(st.emails) : cfg.label_id \notin st.emails[i].labelId

C10_Witness ==
    /\ last.node = "ingest"
    /\ Truthy(cfg.label_id)
    /\ Len(st.emails) = 1
    /\ Len(srv) = 3
    /\ srv[1].unread /\ cfg.label_id \in srv[1].labelId
    /\ srv[3].unread /\ st.emails[1].messageId = srv[3].messageId

----------------------------------------------------------------------------
(* The handler, one step at a time. *)

HandlerStep == last.node = "handle_classification"

\* The classification the handler was given is a reply whose template loads.
ReplyWithTemplate ==
    /\ last.input.classification_result # NoneValue
    /\ last.input.classification_result[1].action = "reply"
    /\ last.input.classification_result[1].reply_template \in TemplateFiles

InputField(key) == Field(last.input.current_email, key)

\* C11: in dry-run a handler step makes no send_reply call; for a reply whose
\* template loads it returns replied_count + 1, and when the message has a
\* message id and a folder id and the marker is configured it calls
\* apply_label for that message and marker, once, without a request to the
\* server.
C11_DryRunSuppression ==
    (HandlerStep /\ cfg.dry_run) =>
        /\ StepCallsOf("send_reply") = {}
        /\ \A k \in 1..Len(StepCalls) : ~StepCalls[k].req
        /\ ReplyWithTemplate =>
            /\ last.update.replied_count = last.input.replied_count + 1
            /\ (Truthy(InputField("messageId")) /\ Truthy(InputField("folderId"))
                    /\ Truthy(cfg.label_id))
                => /\ Cardinality(StepCallsOf("apply_label")) = 1
                   /\ \A k \in StepCallsOf("apply_label") :
                        /\ StepCalls[k].mid = InputField("messageId")
                        /\ StepCalls[k].label = cfg.label_id
                        /\ StepCalls[k].ok

C11_Witness ==
    /\ HandlerStep /\ cfg.dry_run /\ cfg.send_reply /\ ~cfg.add_label
    /\ ReplyWithTemplate
    /\ last.update.replied_count = last.input.replied_count + 1
    /\ StepCallsOf("apply_label") # {}

----------------------------------------------------------------------------
(* The two-message scenario. *)

\* The two-message scenario: the default configuration, the single rule
\* "article", and a mailbox [A, B] where A is an article submission and B is
\* not.
ScenarioRun ==
    /\ cfg = DefaultConfig /\ rules = RulesSingle
    /\ Len(srv) = 2
    /\ srv[1].subject = ArticleSubject
    /\ srv[2].subject # ArticleSubject

\* C12: once the program has been run on the two-message scenario, the run
\* has ended with replied_count 1 and processed_count 2, A replied to once,
\* read and marked, and B not replied to, still unread, and marked.
C12_TwoMessageScenario ==
    (ScenarioRun /\ run >= 1) =>
        /\ st.replied_count = 1
        /\ st.processed_count = 2
        /\ srv[1].replies = 1 /\ ~srv[1].unread /\ cfg.label_id \in srv[1].labelId
        /\ srv[2].replies = 0 /\ srv[2].unread /\ cfg.label_id \in srv[2].labelId

----------------------------------------------------------------------------
(* Failures of the classification service. *)

\* The service call that ended the latest classify step raised an exception.
ServiceRaised ==
    /\ last.node = "classify" /\ InRange(last.input)
    /\ llm_calls # <<>>
    /\ llm_calls[Len(llm_calls)].response.kind = "raise"

RaisedText == llm_calls[Len(llm_calls)].response.error

\* The latest classify step ended at a rule whose prompt file is not there:
\* every rule before it was evaluated and did not match, and it is the next
\* one in evaluation order.
PromptMissing ==
    /\ last.node = "classify" /\ InRange(last.input)
    /\ \A k \in 1..Len(llm_calls) :
          llm_calls[k].response.kind # "raise" /\ ~llm_calls[k].response.match
    /\ Len(llm_calls) < Len(rules)
    /\ load_classifications(rules)[Len(llm_calls) + 1].classification_prompt
          \notin PromptFiles

\* The exception the latest classify step ended with, and its text.
ClassificationRaised == ServiceRaised \/ PromptMissing

FailureText ==
    IF ServiceRaised THEN RaisedText
    ELSE NoSuchFile(install_dir,
                    load_classifications(rules)[Len(llm_calls) + 1].classification_prompt)

\* The text has "rate_limit" in it, in any letter case, or "429".
RateLimitShaped(text) ==
    \/ \E i \in 1..Len(text) :
            /\ i + Len(CharsRateLimit) - 1 <= Len(text)
            /\ \A j \in 1..Len(CharsRateLimit) : LowerChar(text[i + j - 1]) = CharsRateLimit[j]
    \/ \E i \in 1..Len(text) :
            /\ i + 2 <= Len(text)
            /\ text[i] = "4" /\ text[i + 1] = "2" /\ text[i + 2] = "9"

\* C13: when the classification of a message in a classify step raises (the
\* service call, or the loading of a rule's prompt), the node returns
\* classification_result None; the errors it returns are the errors it was
\* given if the text of the exception is rate-limit-shaped, and otherwise the
\* errors it was given followed by one entry with the message index and the
\* text.
C13_RateLimitVersusFatal ==
    ClassificationRaised =>
        /\ last.update.classification_result = NoneValue
        /\ last.update.current_index = last.input.current_index
        /\ IF RateLimitShaped(FailureText)
           THEN last.update.errors = last.input.errors
           ELSE last.update.errors =
                    Append(last.input.errors,
                           ClassifyError(last.input.current_index, FailureText))

C13_Witness ==
    /\ ServiceRaised
    /\ RaisedText = ErrRateLimitUpper
    /\ Len(llm_calls) = 2
    /\ last.input.errors # <<>>
    /\ last.update.errors = last.input.errors

----------------------------------------------------------------------------
(* The errors list. *)

\* What the latest node added to the errors it was given.
NewEntries ==
    SubSeq(last.update.errors, Len(last.input.errors) + 1, Len(last.update.errors))

\* C14: after every node step, state merge included, the errors of the state
\* are the errors before the step followed by the entries the node recorded,
\* and no entry occurs twice (within a run every failure has its own text:
\* the message index or the sender).
C14_ErrorsAppendOnly ==
    last.node \in NodeNames =>
        /\ st.errors = last.input.errors \o NewEntries
        /\ (\A i, j \in 1..Len(last.input.errors) :
                last.input.errors[i] = last.input.errors[j] => i = j)
            => (\A i, j \in 1..Len(st.errors) : st.errors[i] = st.errors[j] => i = j)

----------------------------------------------------------------------------
(* The handler's paths. *)

InputClassification == last.input.classification_result[1]

HasIds == Truthy(InputField("messageId")) /\ Truthy(InputField("folderId"))

\* The step made exactly one apply_label call, for the message and the marker.
LabelAttempted ==
    /\ Cardinality(StepCallsOf("apply_label")) = 1
    /\ \A k \in StepCallsOf("apply_label") :
        /\ StepCalls[k].mid = InputField("messageId")
        /\ StepCalls[k].label = cfg.label_id

\* processed_count and current_index each went up by one.
Advanced ==
    /\ last.update.processed_count = last.input.processed_count + 1
    /\ last.update.current_index = last.input.current_index + 1

\* C15: for a reply classification whose reply_template is absent or does not
\* load, the handler returns the errors it was given plus one entry (naming
\* the classification, or the load failure), makes no send_reply and no
\* mark_as_read call, returns replied_count as given, calls apply_label
\* exactly when add_label is on, the marker is configured and the message has
\* its ids, and advances processed_count and current_index by one.
C15_TemplateFallback ==
    (/\ HandlerStep
     /\ last.input.classification_result # NoneValue
     /\ InputClassification.action = "reply"
     /\ InputClassification.reply_template \notin TemplateFiles)
        => /\ last.update.errors =
                  Append(last.input.errors,
                         IF InputClassification.reply_template = ""
                         THEN NoTemplateError(InputClassification.classification_name)
                         ELSE LoadTemplateError(InputClassification.reply_template))
           /\ StepCallsOf("send_reply") = {}
           /\ StepCallsOf("mark_as_read") = {}
           /\ last.update.replied_count = last.input.replied_count
           /\ IF cfg.add_label /\ Truthy(cfg.label_id) /\ HasIds
              THEN LabelAttempted ELSE StepCallsOf("apply_label") = {}
           /\ Advanced

C15_Witness ==
    /\ HandlerStep
    /\ last.input.classification_result # NoneValue
    /\ InputClassification.action = "reply"
    /\ InputClassification.reply_template = "templates/missing.txt"
    /\ ~cfg.dry_run /\ cfg.send_reply
    /\ last.input.errors # <<>>
    /\ Len(last.update.errors) = Len(last.input.errors) + 1
    /\ \E k \in StepCallsOf("apply_label") : StepCalls[k].req /\ ~StepCalls[k].ok

\* An apply_label call of the step returned False.
LabelFailed == \E k \in StepCallsOf("apply_label") : ~StepCalls[k].ok

\* The entries the step's other failures call for: a missing or unloadable
\* template, or a send_reply that returned False.
OtherFailures ==
    IF last.input.classification_result = NoneValue \/ InputClassification.action # "reply"
    THEN <<>>
    ELSE IF InputClassification.reply_template = ""
    THEN <<NoTemplateError(InputClassification.classification_name)>>
    ELSE IF InputClassification.reply_template \notin TemplateFiles
    THEN <<LoadTemplateError(InputClassification.reply_template)>>
    ELSE IF \E k \in StepCallsOf("send_reply") : ~StepCalls[k].ok
    THEN <<FailedReplyError(InputField("fromAddress"))>>
    ELSE <<>>

\* C16: when apply_label returned False in a handler step, the errors
\* returned are the errors given plus only what the step's other failures
\* call for; processed_count and current_index advance by one; replied_count
\* went up by one exactly if a reply was sent (in short, the update is the one
\* the handler returns when every call ends the same but the label
\* succeeds); and the run goes on to the next message if there is one.
C16_LabelFailureNotFatal ==
    (HandlerStep /\ LabelFailed) =>
        /\ last.update.errors = last.input.errors \o OtherFailures
        /\ Advanced
        /\ last.update.replied_count =
               last.input.replied_count
               + (IF \E k \in StepCallsOf("send_reply") : StepCalls[k].ok THEN 1 ELSE 0)
        /\ \E o \in Outcomes :
            LET r == handle_classification_node(cfg, last.input, o)
            IN  /\ o.label = AnswerOk
                /\ r.update = last.update
                /\ Len(r.calls) = Len(StepCalls)
                /\ \A k \in 1..Len(StepCalls) :
                    IF StepCalls[k].op = "apply_label"
                    THEN r.calls[k] = [StepCalls[k] EXCEPT !.ok = TRUE, !.answer = AnswerOk]
                    ELSE r.calls[k] = StepCalls[k]
        /\ (st.current_index < Len(st.emails)) => pc = "classify"

C16_Witness ==
    /\ HandlerStep /\ LabelFailed
    /\ ReplyWithTemplate
    /\ last.update.replied_count = last.input.replied_count + 1
    /\ last.update.errors = last.input.errors
    /\ pc = "classify"

NotLabelCalls(calls) == SelectSeq2(calls, {x \in Range(calls) : x.op # "apply_label"})

\* C17: with no marker configured a handler step makes no apply_label call
\* and returns the errors given plus only what its other failures call for;
\* its update, and its calls other than apply_label, are those of the same
\* step with the marker configured.
C17_UnconfiguredMarker ==
    (HandlerStep /\ ~Truthy(cfg.label_id)) =>
        /\ StepCallsOf("apply_label") = {}
        /\ last.update.errors = last.input.errors \o OtherFailures
        /\ Advanced
        /\ \E o \in Outcomes :
            LET r == handle_classification_node([cfg EXCEPT !.label_id = ProcessedLabel],
                                                last.input, o)
            IN  /\ r.update = last.update
                /\ NotLabelCalls(r.calls) = StepCalls

C17_Witness ==
    /\ HandlerStep /\ ~Truthy(cfg.label_id)
    /\ ~cfg.dry_run /\ cfg.send_reply /\ cfg.add_label
    /\ ReplyWithTemplate /\ HasIds
    /\ last.update.replied_count = last.input.replied_count + 1
    /\ StepCallsOf("mark_as_read") # {}

\* C18: outside dry-run with reply sending on, a handler step whose
\* send_reply returned True returns replied_count + 1 and the errors it was
\* given, calls mark_as_read for the message once, calls apply_label exactly
\* when add_label is on, the marker is configured and the message has its
\* message and folder ids, and advances the counters.
C18_SuccessfulReply ==
    (/\ HandlerStep /\ ~cfg.dry_run /\ cfg.send_reply
     /\ \E k \in StepCallsOf("send_reply") : StepCalls[k].ok)
        => /\ last.update.replied_count = last.input.replied_count + 1
           /\ Cardinality(StepCallsOf("send_reply")) = 1
           /\ Cardinality(StepCallsOf("mark_as_read")) = 1
           /\ \A k \in StepCallsOf("mark_as_read") :
                StepCalls[k].mid = InputField("messageId")
           /\ IF cfg.add_label /\ Truthy(cfg.label_id) /\ HasIds
              THEN LabelAttempted ELSE StepCallsOf("apply_label") = {}
           /\ last.update.errors = last.input.errors
           /\ Advanced

C18_Witness ==
    /\ HandlerStep /\ ~cfg.dry_run /\ cfg.send_reply /\ cfg.add_label
    /\ Truthy(cfg.label_id)
    /\ \E k \in StepCallsOf("send_reply") : StepCalls[k].ok
    /\ \E k \in StepCallsOf("mark_as_read") : ~StepCalls[k].ok
    /\ ~Truthy(InputField("folderId"))
    /\ StepCallsOf("apply_label") = {}
    /\ last.input.errors # <<>>

\* C19: for a classification other than None whose action is not "reply", a
\* handler step calls apply_label exactly when add_label is on, the marker is
\* configured and the message has its ids, makes no send_reply and no
\* mark_as_read call, returns replied_count as given and advances the
\* counters.
C19_NonReplyMarked ==
    (/\ HandlerStep
     /\ last.input.classification_result # NoneValue
     /\ InputClassification.action # "reply")
        => /\ IF cfg.add_label /\ Truthy(cfg.label_id) /\ HasIds
              THEN LabelAttempted ELSE StepCallsOf("apply_label") = {}
           /\ StepCallsOf("send_reply") = {}
           /\ StepCallsOf("mark_as_read") = {}
           /\ last.update.replied_count = last.input.replied_count
           /\ Advanced

\* C20: every handler step, whatever it was given and whatever failed,
\* returns processed_count + 1, current_index + 1, an empty current_email and
\* classification_result None, and that is what the state holds after it.
C20_PostDispatchUpdate ==
    HandlerStep =>
        /\ Advanced
        /\ last.update.current_email = NoneValue
        /\ last.update.classification_result = NoneValue
        /\ st.processed_count = last.input.processed_count + 1
        /\ st.current_index = last.input.current_index + 1
        /\ st.current_email = NoneValue
        /\ st.classification_result = NoneValue

C20_Witness ==
    /\ HandlerStep
    /\ ReplyWithTemplate
    /\ \E k \in StepCallsOf("send_reply") : StepCalls[k].req /\ ~StepCalls[k].ok
    /\ last.input.current_index = 1
    /\ st.current_index = 2
    /\ last.input.current_email # NoneValue
    /\ st.current_email = NoneValue

----------------------------------------------------------------------------
(* The cursor. *)

\* C21: in every state 0 <= current_index <= len(emails); ingest, which
\* starts a run, leaves current_index 0, and no classify or handler step
\* leaves it lower than it found it; and after ingest and after every
\* handler step processed_count = current_index.
C21_RunStateInvariant ==
    /\ 0 <= st.current_index
    /\ st.current_index <= Len(st.emails)
    /\ last.node = "ingest" => st.current_index = 0
    /\ last.node \in {"classify", "handle_classification"} =>
            st.current_index >= last.input.current_index
    /\ last.node \in {"ingest", "handle_classification"} =>
            st.processed_count = st.current_index

C21_Witness ==
    /\ pc = "END"
    /\ last.node = "handle_classification"
    /\ Len(st.emails) = 2
    /\ st.current_index = 2
    /\ st.processed_count = 2
    /\ last.input.current_index = 1

----------------------------------------------------------------------------
(* Ingest. *)

IngestStep == last.node = "ingest"

\* Whether the list request of the latest ingest step succeeded.
ListOk == \E k \in LogIndexes("fetch_unread_emails") : log[k].ok

\* C22: whatever state the ingest node is given, it returns as emails the
\* list the provider returned, in that order, and current_index 0,
\* processed_count 0, replied_count 0, no errors, an empty current_email and
\* classification_result None.
C22_IngestSeedsFreshState ==
    IngestStep =>
        /\ last.update.emails = fetch_unread_emails(srv, cfg.limit, cfg.label_id, ListOk)
        /\ last.update.current_index = 0
        /\ last.update.processed_count = 0
        /\ last.update.replied_count = 0
        /\ last.update.errors = <<>>
        /\ last.update.current_email = NoneValue
        /\ last.update.classification_result = NoneValue
        /\ st.emails = last.update.emails
        /\ st.current_index = 0 /\ st.processed_count = 0 /\ st.replied_count = 0
        /\ st.current_email = NoneValue /\ st.classification_result = NoneValue

C22_Witness ==
    /\ IngestStep
    /\ last.input = UsedState
    /\ Len(last.update.emails) = 2
    /\ Len(srv) >= 4
    /\ last.update.emails[1].messageId = srv[2].messageId
    /\ last.update.emails[2].messageId = srv[4].messageId
    /\ st.processed_count = 0

\* The mailbox positions the list request returns when asked for n unread
\* messages, and those of them that do not carry the marker.
ListedPositions(n) ==
    {i \in 1..Len(srv) :
        srv[i].unread /\ Cardinality({j \in 1..(i - 1) : srv[j].unread}) < n}

UnmarkedPositions(n) == {i \in ListedPositions(n) : cfg.label_id \notin srv[i].labelId}

\* The batch is the first `limit` messages at `positions`, in mailbox order.
BatchIsFirstOf(positions) ==
    /\ Len(st.emails) =
           (IF Cardinality(positions) < cfg.limit THEN Cardinality(positions) ELSE cfg.limit)
    /\ \A m \in 1..Len(st.emails) :
        \E i \in positions :
            /\ Cardinality({j \in positions : j < i}) = m - 1
            /\ st.emails[m] = EmailDict(srv[i])

\* C23: with the marker configured and the list request answered, the batch
\* is the first min(k, limit), in mailbox order, of the k messages without
\* the marker among the first 3 x limit unread messages.
C23_OverFetchFilterTruncate ==
    (IngestStep /\ Truthy(cfg.label_id) /\ ListOk) =>
        BatchIsFirstOf(UnmarkedPositions(3 * cfg.limit))

C23_Witness ==
    /\ IngestStep /\ Truthy(cfg.label_id) /\ ListOk
    /\ cfg.limit = 2
    /\ Len(srv) = 7
    /\ \A i \in 1..5 : cfg.label_id \in srv[i].labelId
    /\ cfg.label_id \notin srv[6].labelId
    /\ cfg.label_id \notin srv[7].labelId
    /\ st.emails = <<EmailDict(srv[6])>>

\* C24: with no marker configured and the list request answered, the batch
\* is the first `limit` unread messages of the mailbox, in order, marked or
\* not, and the run goes on to classify with the fresh state.
C24_UnsetMarkerUnfiltered ==
    (IngestStep /\ ~Truthy(cfg.label_id) /\ ListOk) =>
        /\ BatchIsFirstOf(ListedPositions(cfg.limit))
        /\ last.update.emails = st.emails
        /\ last.update.errors = <<>>
        /\ st.current_index = 0
        /\ pc = "classify"

C24_Witness ==
    /\ IngestStep /\ ~Truthy(cfg.label_id) /\ ListOk
    /\ cfg.limit = 2
    /\ Len(srv) = 4
    /\ ProcessedLabel \in srv[1].labelId
    /\ st.emails = <<EmailDict(srv[1]), EmailDict(srv[2])>>
    /\ pc = "classify"

\* C25: when the list request of ingest fails, the run fails: the graph does
\* not go on with an empty batch, and no run ends normally after it.
C25_IngestFailureFatal ==
    (IngestStep /\ ~ListOk) => pc \notin {"classify", "handle_classification", "END"}

----------------------------------------------------------------------------
(* The routers. *)

\* States that agree with the current one on current_index and on the number
\* of emails, and differ in everything else.
SameCursorStates ==
    {[emails |-> [i \in 1..Len(st.emails) |-> e],
      processed_count |-> p, replied_count |-> p, current_index |-> st.current_index,
      errors |-> errs, current_email |-> cur, classification_result |-> c] :
        e \in {EmailDict(ServerMessage(1, "", {OtherLabel}, TRUE))},
        p \in {0, st.processed_count + 1},
        errs \in {<<>>, ErrorsAfterHandle},
        cur \in {NoneValue, Some(EmailDict(ServerMessage(1, "folder", {}, TRUE)))},
        c \in {NoneValue, Some(Unclassified)}}

\* C26: after a handler step the graph goes to classify if current_index <
\* len(emails) and ends otherwise, and route_after_action gives the same
\* answer for every state with that current_index and that many emails.
C26_LoopController ==
    HandlerStep =>
        /\ pc \in {"classify", "END"}
        /\ pc = "classify" <=> st.current_index < Len(st.emails)
        /\ \A s \in SameCursorStates : route_after_action(s) = pc

C26_Witness ==
    /\ HandlerStep
    /\ pc = "classify"
    /\ st.errors # <<>>
    /\ st.replied_count = 0
    /\ st.current_index = 1

\* C27: a classify step given current_index >= len(emails), an empty batch
\* included, returns the state it was given, calls neither the mail provider
\* nor the classification service, and the router ends the run.
C27_OutOfRangeGuard ==
    (last.node = "classify" /\ ~InRange(last.input)) =>
        /\ last.update = last.input
        /\ StepCalls = <<>>
        /\ llm_calls = <<>>
        /\ pc = "END"

C27_Witness ==
    /\ last.node = "classify"
    /\ last.input.emails = <<>>
    /\ rules # <<>>
    /\ last.update = last.input
    /\ pc = "END"

----------------------------------------------------------------------------
(* The message body. *)

ClassifiedEmail == last.input.emails[last.input.current_index + 1]

\* The body of the message could not be fetched: an id is missing, or the
\* request failed.
ContentFailed ==
    /\ last.node = "classify" /\ InRange(last.input)
    /\ \/ ~Truthy(ClassifiedEmail.messageId)
       \/ ~Truthy(ClassifiedEmail.folderId)
       \/ \E k \in StepCallsOf("get_email_content") : ~StepCalls[k].ok

\* C28: when the body of a message cannot be fetched, every service call of
\* the step gets the message's subject with empty content, the first rule
\* is still evaluated, and the errors returned are the errors given, plus
\* one entry only if the service or a prompt file failed.
C28_ContentFailureSoft ==
    ContentFailed =>
        /\ Cardinality(StepCallsOf("get_email_content")) = 1
        /\ \A k \in 1..Len(llm_calls) :
            llm_calls[k].prompt = [subject |-> ClassifiedEmail.subject, content |-> ""]
        /\ (rules # <<>> /\ load_classifications(rules)[1].classification_prompt \in PromptFiles)
            => /\ llm_calls # <<>>
               /\ llm_calls[1].rule = load_classifications(rules)[1].name
        /\ last.update.classification_result # NoneValue =>
                last.update.errors = last.input.errors
        /\ last.update.classification_result = NoneValue =>
            \/ last.update.errors = last.input.errors
            \/ \E text \in LLMErrors \cup
                          {NoSuchFile(install_dir, rules[i].classification_prompt) :
                              i \in 1..Len(rules)} :
                   last.update.errors =
                       Append(last.input.errors,
                              ClassifyError(last.input.current_index, text))

C28_Witness ==
    /\ ContentFailed
    /\ \E k \in StepCallsOf("get_email_content") : StepCalls[k].req /\ ~StepCalls[k].ok
    /\ Len(llm_calls) = 2
    /\ llm_calls[2].response.match
    /\ llm_calls[2].prompt.content = ""
    /\ last.update.classification_result # NoneValue
    /\ last.update.errors = last.input.errors

----------------------------------------------------------------------------
(* Order and multiplicity of the steps of a run. *)

DispatchOps == {"send_reply", "mark_as_read", "apply_label"}

\* C29: a handler step makes each of send_reply, mark_as_read and
\* apply_label at most once, every call it makes is one of the three and is
\* for the message it was given, and it moves the cursor past that message,
\* on every path (the fallbacks from a missing or unloadable template too).
C29_NoRetries ==
    last.node = "handle_classification" =>
        /\ \A op \in DispatchOps : Cardinality(StepCallsOf(op)) <= 1
        /\ \A k \in 1..Len(StepCalls) :
              /\ StepCalls[k].op \in DispatchOps
              /\ StepCalls[k].mid = Field(last.input.current_email, "messageId")
        /\ st.current_index = last.input.current_index + 1

C29_Witness ==
    /\ last.node = "handle_classification"
    /\ last.input.current_index = 1
    /\ last.input.classification_result # NoneValue
    /\ last.input.classification_result[1].classification_name = "promo"
    /\ \E k \in StepCallsOf("apply_label") : StepCalls[k].req /\ ~StepCalls[k].ok
    /\ Cardinality(StepCallsOf("apply_label")) = 1

\* The node invocations so far are ingest, then classify and handler steps in
\* turn, for message 0, 1, ... in that order.
NodesAlternate ==
    \A k \in 1..Len(nodes) :
        IF k = 1 THEN nodes[k] = [node |-> "ingest", idx |-> 0]
        ELSE IF k % 2 = 0
        THEN nodes[k] = [node |-> "classify", idx |-> (k - 2) \div 2]
        ELSE nodes[k] = [node |-> "handle_classification", idx |-> (k - 3) \div 2]

\* C30: once the program has been run, its node sequence is ingest once, then
\* for each message of the batch, in order, a classify step and a handler
\* step for that message (for an empty batch, the one classify step that
\* finds nothing to do).
C30_StrictlySequential ==
    run >= 1 =>
        /\ Len(nodes) >= 2
        /\ NodesAlternate

----------------------------------------------------------------------------
(* Rule order. *)

\* The position in `rules` of the rule evaluated k-th: the one with exactly
\* k - 1 rules before it in ascending priority, ties in declaration order.
RuleAt(k) ==
    CHOOSE i \in 1..Len(rules) : Cardinality({j \in 1..Len(rules) : Precedes(j, i)}) = k - 1

\* C31: the k-th service call of a classify step is for the rule that is
\* k-th in ascending priority, equal priorities in declaration order; and
\* when the first declared of two equal-priority rules matches, it is the
\* classification returned and the other is not evaluated.
C31_RuleOrderWithTies ==
    (last.node = "classify" /\ InRange(last.input)) =>
        /\ Len(llm_calls) <= Len(rules)
        /\ \A k \in 1..Len(llm_calls) : llm_calls[k].rule = rules[RuleAt(k)].name
        /\ \A k \in 1..Len(llm_calls) :
            llm_calls[k].response.match =>
                /\ k = Len(llm_calls)
                /\ last.update.classification_result # NoneValue
                /\ last.update.classification_result[1].classification_name
                       = rules[RuleAt(k)].name
                /\ \A j \in 1..Len(rules) :
                    (rules[j].priority = rules[RuleAt(k)].priority /\ j > RuleAt(k))
                        => \A n \in 1..Len(llm_calls) : llm_calls[n].rule # rules[j].name

C31_Witness ==
    /\ last.node = "classify" /\ InRange(last.input)
    /\ rules = RulesTies
    /\ Len(llm_calls) = 1
    /\ llm_calls[1].rule = "first"
    /\ llm_calls[1].response.match
    /\ last.update.classification_result[1].classification_name = "first"

----------------------------------------------------------------------------
(* Frame conditions. *)

\* C32: every classify step and every handler step returns the emails it was
\* given, and the state holds them after the step; ingest is the only step
\* after which emails can differ.
C32_EmailsImmutable ==
    last.node \in {"classify", "handle_classification"} =>
        /\ last.update.emails = last.input.emails
        /\ st.emails = last.input.emails

C32_Witness ==
    /\ last.node = "handle_classification"
    /\ last.input.current_index = 1
    /\ Len(st.emails) = 2
    /\ st.emails = last.input.emails
    /\ st.emails[1].messageId = srv[1].messageId
    /\ st.emails[2].messageId = srv[2].messageId
    /\ st.current_index = 2

----------------------------------------------------------------------------
(* Dry-run at the provider. *)

\* The mailbox every handler step starts from.
FreshMailbox == [i \in 1..MaxMail |-> ServerMessage(i, "folder", {}, TRUE)]

\* The requests that only read the mailbox.
ReadOps == {"fetch_unread_emails", "get_email_content"}

\* C33: with dry_run on, send_reply, mark_as_read and apply_label issue no
\* request whatever they are given and whatever the server would answer, and
\* return True when their arguments are present; so in dry-run the only
\* requests any node step sends are the unread-list fetch and the body fetch,
\* every send_reply, mark_as_read and apply_label call returned True without
\* a request, no message was given the marker, and the mailbox (read flags,
\* labels, replies) after a handler step is as it was.
C33_DryRunNoRequests ==
    cfg.dry_run =>
        /\ \A mid \in ArgIds, to \in ArgAddresses, a \in Answers :
              /\ ~send_reply(cfg, mid, to, a).req
              /\ (Truthy(mid) /\ Truthy(to)) => send_reply(cfg, mid, to, a).ok
        /\ \A mid \in ArgIds, a \in Answers :
              /\ ~mark_as_read(cfg, mid, a).req
              /\ Truthy(mid) => mark_as_read(cfg, mid, a).ok
        /\ \A mid \in ArgIds, fid \in ArgFolders, lid \in ArgLabels, a \in Answers :
              /\ ~apply_label(cfg, mid, fid, lid, a).req
              /\ (Truthy(mid) /\ Truthy(fid) /\ Truthy(lid))
                    => apply_label(cfg, mid, fid, lid, a).ok
        /\ \A k \in 1..Len(log) :
              /\ log[k].req => log[k].op \in ReadOps
              /\ log[k].op \in DispatchOps => (~log[k].req /\ log[k].ok)
        /\ marked = {}
        /\ last.node = "handle_classification" => srv = FreshMailbox

C33_Witness ==
    /\ cfg.dry_run /\ cfg.add_label /\ cfg.send_reply
    /\ last.node = "handle_classification"
    /\ ReplyWithTemplate
    /\ st.replied_count = last.input.replied_count + 1
    /\ \E k \in StepCallsOf("apply_label") : ~StepCalls[k].req /\ StepCalls[k].ok
    /\ srv = FreshMailbox

----------------------------------------------------------------------------
(* Argument guards of the provider. *)

ProviderCallMade == last.node = "provider"

\* C34: under every configuration (dry-run or not, either feature flag on
\* or off), send_reply without a message id or a recipient, mark_as_read
\* without a message id and apply_label without a message id, a folder id or
\* a label id return False, and get_email_content without a message id or a
\* folder id returns the empty string; none of them issues a request, and
\* the mailbox is left as it was.
C34_ArgumentGuards ==
    ProviderCallMade =>
        LET a == last.input
            r == last.update
            missing ==
                CASE a.op = "send_reply" -> a.message_id = "" \/ a.to_address = ""
                  [] a.op = "mark_as_read" -> a.message_id = ""
                  [] a.op = "apply_label" ->
                        a.message_id = "" \/ a.folder_id = "" \/ a.label_id = ""
                  [] a.op = "get_email_content" -> a.message_id = "" \/ a.folder_id = ""
        IN  missing =>
                /\ ~r.req
                /\ \A k \in 1..Len(log) : ~log[k].req
                /\ a.op = "get_email_content" => r.content = ""
                /\ a.op # "get_email_content" => ~r.ok
                /\ run = 1 => (srv = FreshMailbox /\ marked = {})

C34_Witness ==
    /\ ProviderCallMade
    /\ cfg.dry_run /\ ~cfg.send_reply /\ ~cfg.add_label
    /\ last.input.op = "mark_as_read"
    /\ last.input.message_id = ""
    /\ ~last.update.ok /\ ~last.update.req

----------------------------------------------------------------------------
(* Wiring of the router. *)

\* The states the router is asked about: a message at the cursor with or
\* without a classification, and the cursor past the batch.
RouterStates ==
    {[InitialState EXCEPT !.emails = ClassifyBatch, !.current_index = idx,
                          !.classification_result = c] :
        idx \in 0..MaxMail, c \in {NoneValue, Some(Unclassified)}}

\* C35: every value classification_router returns is a destination
\* build_workflow registers for the classify node, every handler node among
\* those destinations is built by a factory that the nodes package defines,
\* and so the program gets as far as running its graph.
C35_RouterRangeWired ==
    /\ \A s \in RouterStates : classification_router(s) \in ClassifyDestinations
    /\ \A d \in ClassifyDestinations \ {"END"} : HandlerNodeFactory[d] \in DefinedFactories
    /\ pc # "ImportError"

----------------------------------------------------------------------------
(* What a classify step leaves alone. *)

\* C36: for current_index < len(emails) the classify node returns emails,
\* processed_count, replied_count and current_index as it was given them and
\* current_email = emails[current_index], whether a rule matched, none
\* matched, or the step failed; the errors it returns are the errors it was
\* given, followed by one entry exactly when the step failed with a text
\* that is not rate-limit shaped.
C36_ClassifyFrame ==
    (last.node = "classify" /\ InRange(last.input)) =>
        LET rate_limited == ClassificationRaised /\ RateLimitShaped(FailureText)
            failed == last.update.classification_result = NoneValue
        IN  /\ last.update.emails = last.input.emails
            /\ last.update.processed_count = last.input.processed_count
            /\ last.update.replied_count = last.input.replied_count
            /\ last.update.current_index = last.input.current_index
            /\ last.update.current_email = Some(ClassifiedEmail)
            /\ (~failed \/ rate_limited) => last.update.errors = last.input.errors
            /\ (failed /\ ~rate_limited) =>
                    /\ Len(last.update.errors) = Len(last.input.errors) + 1
                    /\ SubSeq(last.update.errors, 1, Len(last.input.errors)) = last.input.errors

C36_Witness ==
    /\ last.node = "classify" /\ InRange(last.input)
    /\ last.input.current_index = 1
    /\ last.input.processed_count = 1 /\ last.update.processed_count = 1
    /\ last.input.replied_count = 1 /\ last.update.replied_count = 1
    /\ last.input.current_email = NoneValue
    /\ last.update.current_email = Some(last.input.emails[2])
    /\ ServiceRaised /\ RaisedText = ErrTimeout
    /\ last.input.errors = <<>>
    /\ Len(last.update.errors) = 1

----------------------------------------------------------------------------
(* Order of the provider calls of a handler step. *)

SendReturnedTrue == \E j \in StepCallsOf("send_reply") : StepCalls[j].ok

\* C37: in a handler step every mark_as_read call is for the step's message
\* and comes after a send_reply call of the same step, for the same message,
\* that returned True; in the reply path an apply_label call comes after
\* every send_reply and mark_as_read call of the step; and a step that skips
\* its message, replies in dry-run, or has no send_reply returning True makes
\* no mark_as_read call.
C37_CallOrder ==
    HandlerStep =>
        /\ \A k \in StepCallsOf("mark_as_read") :
              /\ StepCalls[k].mid = InputField("messageId")
              /\ \E j \in StepCallsOf("send_reply") :
                    j < k /\ StepCalls[j].ok /\ StepCalls[j].mid = StepCalls[k].mid
        /\ ReplyWithTemplate =>
              \A k \in StepCallsOf("apply_label") :
                  \A j \in StepCallsOf("send_reply") \cup StepCallsOf("mark_as_read") : j < k
        /\ (~ReplyWithTemplate \/ cfg.dry_run \/ ~SendReturnedTrue) =>
              StepCallsOf("mark_as_read") = {}
        /\ Cardinality(StepCallsOf("mark_as_read")) <= 1

C37_Witness ==
    /\ HandlerStep /\ ReplyWithTemplate /\ LabelingOn /\ cfg.send_reply
    /\ Len(StepCalls) = 3
    /\ StepCalls[1].op = "send_reply" /\ StepCalls[1].ok /\ StepCalls[1].req
    /\ StepCalls[2].op = "mark_as_read" /\ StepCalls[2].mid = StepCalls[1].mid
    /\ StepCalls[3].op = "apply_label" /\ StepCalls[3].mid = StepCalls[1].mid

----------------------------------------------------------------------------
(* The send_reply flag. *)

ReplyGateClosed == HandlerStep /\ ~cfg.dry_run /\ ~cfg.send_reply /\ ReplyWithTemplate

\* C38: outside dry-run with the send_reply flag off, a handler step for a
\* reply classification whose template loads makes no send_reply and no
\* mark_as_read call, returns replied_count and errors as given, advances
\* processed_count and current_index by one, and calls apply_label (once,
\* for the message and the marker) exactly when labeling is on, the marker is
\* configured and the message has its ids.
C38_ReplyGate ==
    ReplyGateClosed =>
        /\ StepCallsOf("send_reply") = {}
        /\ StepCallsOf("mark_as_read") = {}
        /\ last.update.replied_count = last.input.replied_count
        /\ last.update.errors = last.input.errors
        /\ Advanced
        /\ (cfg.add_label /\ Truthy(cfg.label_id) /\ HasIds) => LabelAttempted
        /\ ~(cfg.add_label /\ Truthy(cfg.label_id) /\ HasIds) => StepCallsOf("apply_label") = {}

C38_Witness ==
    /\ ReplyGateClosed /\ cfg.add_label /\ Truthy(cfg.label_id) /\ HasIds
    /\ Truthy(InputField("fromAddress"))
    /\ last.input.replied_count = 1 /\ last.update.replied_count = 1
    /\ last.update.processed_count = 2
    /\ Len(StepCalls) = 1
    /\ StepCalls[1].op = "apply_label" /\ StepCalls[1].req /\ StepCalls[1].ok

----------------------------------------------------------------------------
(* Reply accounting. *)

\* The handler step replied to its message: in dry-run a reply was simulated
\* (a reply classification whose template loads), otherwise send_reply
\* returned True.
RepliedInStep == IF cfg.dry_run THEN ReplyWithTemplate ELSE SendReturnedTrue

\* C39: in every state 0 <= replied_count <= processed_count <= len(emails);
\* ingest returns replied_count 0, a classify step returns it as given, and a
\* handler step returns replied_count + 1 when it replied to its message and
\* replied_count as given otherwise (a skip, a failed send, a missing or
\* unloadable template, the send_reply flag off); so replied_count is the
\* number of messages handled so far for which send_reply returned True or,
\* in dry-run, a reply was simulated.
C39_ReplyAccounting ==
    /\ 0 <= st.replied_count
    /\ st.replied_count <= st.processed_count
    /\ st.processed_count <= Len(st.emails)
    /\ last.node = "ingest" => st.replied_count = 0
    /\ last.node = "classify" => st.replied_count = last.input.replied_count
    /\ last.node = "handle_classification" =>
          /\ last.update.replied_count =
                last.input.replied_count + (IF RepliedInStep THEN 1 ELSE 0)
          /\ st.replied_count = last.update.replied_count

C39_Witness ==
    /\ ~cfg.dry_run /\ cfg.send_reply
    /\ last.node = "handle_classification"
    /\ last.input.current_index = 1
    /\ last.input.replied_count = 1
    /\ st.processed_count = 2
    /\ st.replied_count = 1
    /\ \E k \in StepCallsOf("send_reply") : StepCalls[k].req /\ ~StepCalls[k].ok

----------------------------------------------------------------------------
(* Labeling coverage. *)

\* The handler was given a skip classification named "error".
SkipNamedError ==
    /\ last.input.classification_result # NoneValue
    /\ InputClassification.action = "skip"
    /\ InputClassification.classification_name = "error"

RuleNames(declared) == {declared[i].name : i \in 1..Len(declared)}

\* The classifications the classify node can return for the first message
\* of a batch under the rules `declared`, whatever the service answers.
ClassifyResults(declared) ==
    {classify_email_node(root, [InitialState EXCEPT !.emails = ClassifyBatch],
                         declared, content_ok, responses).update.classification_result :
        root \in InstallDirs, content_ok \in BOOLEAN,
        responses \in [1..Len(declared) -> Responses]}

\* Under rules without one named "error", classify never returns a skip
\* named "error".
NoErrorSkipFromClassify ==
    \A declared \in ClassifyRuleSets \cup RunRuleSets :
        "error" \notin RuleNames(declared) =>
            \A r \in ClassifyResults(declared) :
                r # NoneValue => ~(r[1].action = "skip" /\ r[1].classification_name = "error")

\* C40: outside dry-run, with add_label on, the marker configured and the
\* message's id and folder id present, a handler step calls apply_label
\* exactly once, for its message and the marker, unless it was given a skip
\* classification named "error", in which case it makes no apply_label call;
\* and the classify node returns no such classification under rules that
\* have no rule named "error".
C40_LabelingCoverage ==
    /\ (HandlerStep /\ LabelingOn /\ HasIds) =>
          IF SkipNamedError THEN StepCallsOf("apply_label") = {} ELSE LabelAttempted
    /\ NoErrorSkipFromClassify

C40_Witness ==
    /\ HandlerStep /\ LabelingOn /\ HasIds
    /\ last.input.classification_result = Some(Unclassified)
    /\ LabelAttempted
    /\ Len(StepCalls) = 1 /\ StepCalls[1].req
    /\ "error" \notin RuleNames(RulesTies)
    /\ Some(Unclassified) \in ClassifyResults(RulesTies)

====
